---- MODULE Spec2Model ----
(***************************************************************************)
(* IoT device risk management (src/IoT.py): the risk table and scorer, the *)
(* device report with its recommendation list, the role based access       *)
(* control, and the interactive session of the script's __main__ block.    *)
(*                                                                         *)
(* Specifications                                                          *)
(*   Spec         the script as shipped (lines 147-217)                    *)
(*   SpecAccess   AccessControl driven through add_user / check_access     *)
(*   SpecRisk     IoTDevice construction over the whole risk table         *)
(*   SpecReport   DeviceReport / Recommendation driven through its methods *)
(*   SpecSession  the session of lines 175-217 over a registry built with  *)
(*                AccessControl.add_user                                   *)
(***************************************************************************)
EXTENDS Integers, Sequences, FiniteSets, TLC

VARIABLES
    users,            \* AccessControl.users: dict, kept in insertion order
    devices,          \* DeviceReport.devices
    recommendations,  \* DeviceReport.recommendations
    pc,               \* position of the script; "api" when the classes are driven directly
    todo,             \* iterations left of the loop `for _ in range(num_users)`
    user,             \* the script's local `user` (line 178)
    out,              \* the call of the last step and what it returned: [op, arg, ret]
    text,             \* the lines of text the last step produced, <<>> when none
    built             \* the last IoTDevice(...): the object as __init__ left it, with the
                      \* clock reading of line 55 and the random number of line 60

vars == <<users, devices, recommendations, pc, todo, user, out, text, built>>

-----------------------------------------------------------------------------
(* Bounds of the model *)

MaxUsers == 2
MaxDevices == 2
MaxRecs == 2

(* Program constants *)

AGE_LIMIT_DAYS == 180
AGE_BONUS == 2
MAX_RANDOM == 2
HIGH_RISK == 5
HOURS_PER_DAY == 24

-----------------------------------------------------------------------------
(* Enumerations: a member is written by its name *)

Role == {"VIEWER", "MANAGER", "ADMIN"}

DeviceStatus == {"ACTIVE", "INACTIVE", "UNDER_MAINTENANCE"}

\* Python's None, in the shape of a User so that it can sit in `user`
None == [username |-> "<None>", role |-> "<None>", is_active |-> FALSE]

User(username, role, is_active) ==
    [username |-> username, role |-> role, is_active |-> is_active]

NoOutput == [op |-> "", arg |-> "", ret |-> ""]

\* the step was the call op(arg), returned ret and produced the lines of text
Returns(op, arg, ret, lines) ==
    /\ out' = [op |-> op, arg |-> arg, ret |-> ret]
    /\ text' = lines

Device(device_id, device_type, firmware_version, status, last_updated, risk_level) ==
    [device_id |-> device_id, device_type |-> device_type,
     firmware_version |-> firmware_version, status |-> status,
     last_updated |-> last_updated, risk_level |-> risk_level]

NoDevice == Device("", "", "", "", 0, 0)

NoBuilt == [device |-> NoDevice, now |-> 0, rand |-> 0]

-----------------------------------------------------------------------------
(* The risk table and the scorer.  Time is counted in hours. *)

DEVICE_RISK_LEVELS ==
    ( "smart_light"     :> ("1.0" :> 5 @@ "1.1" :> 3 @@ "1.2" :> 2) ) @@
    ( "thermostat"      :> ("1.0" :> 4 @@ "1.1" :> 3 @@ "1.2" :> 1) ) @@
    ( "security_camera" :> ("1.0" :> 6 @@ "1.1" :> 4 @@ "1.2" :> 3) ) @@
    ( "door_lock"       :> ("1.0" :> 7 @@ "1.1" :> 5 @@ "1.2" :> 3) )

EmptyDict == [k \in {} |-> 0]

\* dict.get(key, default)
Get(d, key, default) == IF key \in DOMAIN d THEN d[key] ELSE default

\* timedelta.days of t1 - t0: whole days, rounded toward minus infinity
Days(t0, t1) == (t1 - t0) \div HOURS_PER_DAY

\* a scorer whose age test is `>=`
calculate_risk_from(self, now, rand) ==
    LET base_risk == Get(Get(DEVICE_RISK_LEVELS, self.device_type, EmptyDict),
                         self.firmware_version, 0)
        firmware_age_days == Days(self.last_updated, now)
        aged == IF firmware_age_days >= AGE_LIMIT_DAYS
                THEN base_risk + AGE_BONUS ELSE base_risk
    IN  aged + rand

\* IoTDevice.calculate_risk, with datetime.now() = now and random.randint(0, 2) = rand
calculate_risk(self, now, rand) ==
    LET base_risk == Get(Get(DEVICE_RISK_LEVELS, self.device_type, EmptyDict),
                         self.firmware_version, 0)
        firmware_age_days == Days(self.last_updated, now)
        aged == IF firmware_age_days > AGE_LIMIT_DAYS
                THEN base_risk + AGE_BONUS ELSE base_risk
    IN  aged + rand

\* IoTDevice.__init__, the clock reading t0 at line 47 and t1 at line 55
IoTDevice(device_id, device_type, firmware_version, status, t0, t1, rand) ==
    LET self == Device(device_id, device_type, firmware_version, status, t0, 0)
    IN  [self EXCEPT !.risk_level = calculate_risk(self, t1, rand)]

\* new_device = IoTDevice(...)
NewDevice(device_id, device_type, firmware_version, status, t0, t1, rand) ==
    /\ built' = [device |-> IoTDevice(device_id, device_type, firmware_version,
                                      status, t0, t1, rand),
                 now |-> t1, rand |-> rand]
    /\ Returns("IoTDevice", device_id, "IoTDevice", <<>>)
    /\ UNCHANGED <<users, devices, recommendations, pc, todo, user>>

-----------------------------------------------------------------------------
(* AccessControl *)

\* position of the key in the dict, 0 when absent
KeyIndex(d, username) ==
    IF \E i \in 1..Len(d) : d[i].username = username
    THEN CHOOSE i \in 1..Len(d) : d[i].username = username
    ELSE 0

\* a dict that would keep both values of a key set twice
DictSetAppend(d, username, value) == Append(d, value)

\* self.users[username] = value: replaces the value of a key already there
\* (the key keeps its place), inserts a new key at the end
DictSet(d, username, value) ==
    IF KeyIndex(d, username) = 0
    THEN Append(d, value)
    ELSE [d EXCEPT ![KeyIndex(d, username)] = value]

\* self.users.get(username)
DictGet(d, username) ==
    IF KeyIndex(d, username) = 0 THEN None ELSE d[KeyIndex(d, username)]

\* a role hierarchy in which Admin inherits what Manager may do
check_access_hierarchy(u, action) ==
    IF u = None THEN "AttributeError"
    ELSE IF ~u.is_active THEN "False"
    ELSE IF action = "view_report" THEN "True"
    ELSE IF action \in {"modify_report", "approve_recommendation"}
         THEN IF u.role \in {"MANAGER", "ADMIN"} THEN "True" ELSE "False"
    ELSE IF action = "add_device"
         THEN IF u.role = "ADMIN" THEN "True" ELSE "False"
    ELSE "False"

\* check_access: "True", "False", or the exception that leaves it
check_access(u, action) ==
    IF u = None THEN "AttributeError"
    ELSE IF ~u.is_active THEN "False"
    ELSE IF action = "view_report"
         THEN IF u.role \in {"VIEWER", "MANAGER", "ADMIN"} THEN "True" ELSE "False"
    ELSE IF action = "modify_report"
         THEN IF u.role \in {"MANAGER", "ADMIN"} THEN "True" ELSE "False"
    ELSE IF action = "add_device"
         THEN IF u.role = "ADMIN" THEN "True" ELSE "False"
    ELSE IF action = "approve_recommendation"
         THEN IF u.role = "MANAGER" THEN "True" ELSE "False"
    ELSE "False"

\* AccessControl.add_user
add_user(d, username, role, is_active) ==
    DictSet(d, username, User(username, role, is_active))

\* access_control.add_user(username, role, is_active)
AddUser(username, role, is_active) ==
    /\ users' = add_user(users, username, role, is_active)
    /\ Returns("add_user", username, "None", <<>>)
    /\ UNCHANGED <<devices, recommendations, pc, todo, user, built>>

\* access_control.check_access(access_control.users[username], action)
CheckAccess(username, action) ==
    /\ KeyIndex(users, username) # 0
    /\ Returns(action, username, check_access(DictGet(users, username), action), <<>>)
    /\ UNCHANGED <<users, devices, recommendations, pc, todo, user, built>>

-----------------------------------------------------------------------------
(* Recommendation and DeviceReport *)

\* Recommendation(description): approved defaults to False
Recommendation(description) == [description |-> description, approved |-> FALSE]

\* a report that scores its devices again whenever one is added
add_device_rescoring(devs, device) ==
    Append([i \in 1..Len(devs) |->
               [devs[i] EXCEPT !.risk_level =
                    calculate_risk(devs[i], device.last_updated, 0)]],
           device)

\* DeviceReport.add_device
add_device(devs, device) == Append(devs, device)

\* a report that puts a new recommendation first
add_recommendation_first(recs, recommendation) == <<recommendation>> \o recs

\* DeviceReport.add_recommendation
add_recommendation(recs, recommendation) == Append(recs, recommendation)

\* str(device), the fields it renders
DeviceLine(d) ==
    [device_id |-> d.device_id, device_type |-> d.device_type,
     firmware_version |-> d.firmware_version, status |-> d.status,
     risk_level |-> d.risk_level]

\* DeviceReport.generate_report: a line for each device, in order
generate_report(devs) == [i \in 1..Len(devs) |-> DeviceLine(devs[i])]

\* str(recommendation)
RecommendationLine(r) ==
    [description |-> r.description,
     state |-> IF r.approved THEN "Approved" ELSE "Pending"]

\* DeviceReport.view_recommendations
view_recommendations(recs) == [i \in 1..Len(recs) |-> RecommendationLine(recs[i])]

IsActive(d) == d.status = "ACTIVE"
IsInactive(d) == d.status = "INACTIVE"
IsUnderMaintenance(d) == d.status = "UNDER_MAINTENANCE"
IsHighRisk(d) == d.risk_level >= HIGH_RISK
IsLowRisk(d) == d.risk_level < HIGH_RISK

\* statistics whose high band starts above the threshold
generate_statistics_above(devs) ==
    << Len(devs),
       Len(SelectSeq(devs, IsActive)),
       Len(SelectSeq(devs, IsInactive)),
       Len(SelectSeq(devs, IsUnderMaintenance)),
       Len(SelectSeq(devs, LAMBDA d : d.risk_level > HIGH_RISK)),
       Len(SelectSeq(devs, IsLowRisk)) >>

\* DeviceReport.generate_statistics: the numbers of its six lines, in order
generate_statistics(devs) ==
    << Len(devs),
       Len(SelectSeq(devs, IsActive)),
       Len(SelectSeq(devs, IsInactive)),
       Len(SelectSeq(devs, IsUnderMaintenance)),
       Len(SelectSeq(devs, IsHighRisk)),
       Len(SelectSeq(devs, IsLowRisk)) >>

\* report.add_device(IoTDevice(...))
AddDevice(device_id, device_type, firmware_version, status, t0, t1, rand) ==
    /\ built' = [device |-> IoTDevice(device_id, device_type, firmware_version,
                                      status, t0, t1, rand),
                 now |-> t1, rand |-> rand]
    /\ devices' = add_device(devices, built'.device)
    /\ Returns("add_device", device_id, "None", <<>>)
    /\ UNCHANGED <<users, recommendations, pc, todo, user>>

\* report.devices[i - 1].status = status: the attribute is public, no method wraps it
SetStatus(i, status) ==
    /\ i \in 1..Len(devices)
    /\ devices' = [devices EXCEPT ![i].status = status]
    /\ Returns("status", devices[i].device_id, "None", <<>>)
    /\ UNCHANGED <<users, recommendations, pc, todo, user, built>>

\* report.add_recommendation(Recommendation(description))
AddRecommendation(description) ==
    /\ recommendations' = add_recommendation(recommendations, Recommendation(description))
    /\ Returns("add_recommendation", description, "None", <<>>)
    /\ UNCHANGED <<users, devices, pc, todo, user, built>>

\* report.recommendations[i - 1].approve()
Approve(i) ==
    /\ i \in 1..Len(recommendations)
    /\ recommendations' = [recommendations EXCEPT ![i].approved = TRUE]
    /\ Returns("approve", recommendations[i].description, "None", <<>>)
    /\ UNCHANGED <<users, devices, pc, todo, user, built>>

\* report.recommendations[i - 1].reject()
Reject(i) ==
    /\ i \in 1..Len(recommendations)
    /\ recommendations' = [recommendations EXCEPT ![i].approved = FALSE]
    /\ Returns("reject", recommendations[i].description, "None", <<>>)
    /\ UNCHANGED <<users, devices, pc, todo, user, built>>

\* report.generate_report()
GenerateReport ==
    /\ Returns("generate_report", "", "str", generate_report(devices))
    /\ UNCHANGED <<users, devices, recommendations, pc, todo, user, built>>

\* report.view_recommendations()
ViewRecommendations ==
    /\ Returns("view_recommendations", "", "str", view_recommendations(recommendations))
    /\ UNCHANGED <<users, devices, recommendations, pc, todo, user, built>>

\* report.generate_statistics()
GenerateStatistics ==
    /\ Returns("generate_statistics", "", "str", generate_statistics(devices))
    /\ UNCHANGED <<users, devices, recommendations, pc, todo, user, built>>

-----------------------------------------------------------------------------
(* Text typed at a prompt is a sequence of characters; str.lower, str.upper *)
(* and the enums' __members__ work on those.                               *)

UPPERCASE ==
    <<"A", "B", "C", "D", "E", "F", "G", "H", "I", "J", "K", "L", "M",
      "N", "O", "P", "Q", "R", "S", "T", "U", "V", "W", "X", "Y", "Z">>

LOWERCASE ==
    <<"a", "b", "c", "d", "e", "f", "g", "h", "i", "j", "k", "l", "m",
      "n", "o", "p", "q", "r", "s", "t", "u", "v", "w", "x", "y", "z">>

LetterIndex(alphabet, c) ==
    IF \E i \in 1..Len(alphabet) : alphabet[i] = c
    THEN CHOOSE i \in 1..Len(alphabet) : alphabet[i] = c
    ELSE 0

\* str.lower
lower(s) ==
    [i \in 1..Len(s) |->
        IF LetterIndex(UPPERCASE, s[i]) = 0 THEN s[i]
        ELSE LOWERCASE[LetterIndex(UPPERCASE, s[i])]]

\* str.upper
upper(s) ==
    [i \in 1..Len(s) |->
        IF LetterIndex(LOWERCASE, s[i]) = 0 THEN s[i]
        ELSE UPPERCASE[LetterIndex(LOWERCASE, s[i])]]

\* Role.__members__: member name -> member
Role__members__ ==
    ( <<"V", "I", "E", "W", "E", "R">> :> "VIEWER" ) @@
    ( <<"M", "A", "N", "A", "G", "E", "R">> :> "MANAGER" ) @@
    ( <<"A", "D", "M", "I", "N">> :> "ADMIN" )

\* DeviceStatus.__members__
DeviceStatus__members__ ==
    ( <<"A", "C", "T", "I", "V", "E">> :> "ACTIVE" ) @@
    ( <<"I", "N", "A", "C", "T", "I", "V", "E">> :> "INACTIVE" ) @@
    ( <<"U", "N", "D", "E", "R", "_", "M", "A", "I", "N", "T", "E", "N", "A", "N", "C", "E">>
        :> "UNDER_MAINTENANCE" )

\* lines 153-154: input(...).lower(), then Role[role.upper()] when role is in
\* Role.__members__, Role.VIEWER otherwise
ParseRole(typed) ==
    LET role == lower(typed)
    IN  IF role \in DOMAIN Role__members__
        THEN Role__members__[upper(role)] ELSE "VIEWER"

\* lines 169-170: the same for the device status, DeviceStatus.ACTIVE otherwise
ParseStatus(typed) ==
    LET device_status == lower(typed)
    IN  IF device_status \in DOMAIN DeviceStatus__members__
        THEN DeviceStatus__members__[upper(device_status)] ELSE "ACTIVE"

-----------------------------------------------------------------------------
(* The script: lines 147-217 *)

\* lines 151-155, one iteration of the loop over range(num_users)
MainAddUser(username, typed_role) ==
    /\ pc = "users"
    /\ todo > 0
    /\ users' = add_user(users, username, ParseRole(typed_role), TRUE)
    /\ todo' = todo - 1
    /\ pc' = IF todo' = 0 THEN "devices" ELSE "users"
    /\ Returns("add_user", username, "None", <<>>)
    /\ UNCHANGED <<devices, recommendations, user, built>>

\* lines 162-173, the answer "yes"; the device type is typed in lower case, on
\* which the lower() of line 167 changes nothing
MainAddDevice(device_id, device_type, firmware_version, typed_status, t0, t1, rand) ==
    /\ pc = "devices"
    /\ built' = [device |-> IoTDevice(device_id, device_type, firmware_version,
                                      ParseStatus(typed_status), t0, t1, rand),
                 now |-> t1, rand |-> rand]
    /\ devices' = add_device(devices, built'.device)
    /\ Returns("add_device", device_id, "None", <<>>)
    /\ UNCHANGED <<users, recommendations, pc, todo, user>>

\* lines 162-164, the answer "no"
MainDevicesDone ==
    /\ pc = "devices"
    /\ pc' = "login"
    /\ Returns("", "", "", <<>>)
    /\ UNCHANGED <<users, devices, recommendations, todo, user, built>>

\* lines 176-187: the lookup, the check of view_report, the report and the
\* recommendations printed, and the gate of line 187
Login(username) ==
    /\ pc = "login"
    /\ user' = DictGet(users, username)
    /\ LET granted == check_access(user', "view_report")
       IN  /\ pc' = IF granted = "AttributeError" THEN "crashed"
                     ELSE IF granted = "True" /\ user'.role \in {"MANAGER", "ADMIN"}
                          THEN "recommend"
                     ELSE "stats"
           /\ Returns("view_report", username, granted,
                      IF granted = "True"
                      THEN generate_report(devices) \o view_recommendations(recommendations)
                      ELSE <<>>)
    /\ UNCHANGED <<users, devices, recommendations, todo, built>>

\* lines 189-196, the answer "yes"
RecommendYes(description) ==
    /\ pc = "recommend"
    /\ recommendations' = add_recommendation(recommendations, Recommendation(description))
    /\ Returns("add_recommendation", description, "None", <<>>)
    /\ UNCHANGED <<users, devices, pc, todo, user, built>>

\* lines 189-191, the answer "no"
RecommendNo ==
    /\ pc = "recommend"
    /\ pc' = "approve"
    /\ Returns("", "", "", <<>>)
    /\ UNCHANGED <<users, devices, recommendations, todo, user, built>>

\* an approval whose test forgets the lower bound: Python counts a negative
\* index from the end of the list, and raises IndexError beyond its start
ApproveYesNoLowerBound(number) ==
    LET index == number - 1
        n == Len(recommendations)
    IN  /\ pc = "approve"
        /\ IF index < n /\ index >= 0 - n
           THEN /\ recommendations' =
                      [recommendations EXCEPT ![(index % n) + 1].approved = TRUE]
                /\ pc' = "approve"
                /\ Returns("approve", ToString(number), "Recommendation approved.",
                           view_recommendations(recommendations))
           ELSE IF index < n
           THEN /\ pc' = "crashed"
                /\ Returns("approve", ToString(number), "IndexError",
                           view_recommendations(recommendations))
                /\ UNCHANGED recommendations
           ELSE /\ pc' = "approve"
                /\ Returns("approve", ToString(number), "Invalid recommendation index.",
                           view_recommendations(recommendations))
                /\ UNCHANGED recommendations
        /\ UNCHANGED <<users, devices, todo, user, built>>

\* lines 200-211, the answer "yes" and the number typed
ApproveYes(number) ==
    LET index == number - 1
    IN  /\ pc = "approve"
        /\ pc' = "approve"
        /\ IF 0 <= index /\ index < Len(recommendations)
           THEN /\ recommendations' =
                      [recommendations EXCEPT ![index + 1].approved = TRUE]
                /\ Returns("approve", ToString(number), "Recommendation approved.",
                           view_recommendations(recommendations))
           ELSE /\ Returns("approve", ToString(number), "Invalid recommendation index.",
                           view_recommendations(recommendations))
                /\ UNCHANGED recommendations
        /\ UNCHANGED <<users, devices, todo, user, built>>

\* lines 200-202, the answer "no"
ApproveNo ==
    /\ pc = "approve"
    /\ pc' = "stats"
    /\ Returns("", "", "", <<>>)
    /\ UNCHANGED <<users, devices, recommendations, todo, user, built>>

\* lines 214-217, the answer "yes"
StatsYes ==
    /\ pc = "stats"
    /\ pc' = "done"
    /\ Returns("generate_statistics", "", "str", generate_statistics(devices))
    /\ UNCHANGED <<users, devices, recommendations, todo, user, built>>

\* line 214, any other answer
StatsNo ==
    /\ pc = "stats"
    /\ pc' = "done"
    /\ Returns("", "", "", <<>>)
    /\ UNCHANGED <<users, devices, recommendations, todo, user, built>>

-----------------------------------------------------------------------------
(* Inputs *)

Usernames == {"alice", "bob"}

ActionStrings ==
    {"view_report", "modify_report", "add_device", "approve_recommendation",
     "delete_report"}

DeviceIds == {"d1"}

\* thermostat 1.0 scores 4, 5 or 6
ReportDeviceTypes == {"thermostat"}
ReportFirmwareVersions == {"1.0"}
Descriptions == {"patch"}

\* readings of the clock at line 47
ClockReadings == {0, 30}

\* hours between the reading of line 47 and that of line 55: none, the clock set
\* back an hour, a process stopped for 180 days and 23 hours, and for 181 days
ElapsedHours == {0, -1, 4343, 4344}

\* random.randint(0, 2)
RandomInts == 0..MAX_RANDOM

-----------------------------------------------------------------------------
(* SpecAccess *)

InitApi ==
    /\ users = <<>>
    /\ devices = <<>>
    /\ recommendations = <<>>
    /\ pc = "api"
    /\ todo = 0
    /\ user = None
    /\ out = NoOutput
    /\ text = <<>>
    /\ built = NoBuilt

AccessAddUser ==
    \E username \in Usernames, role \in Role, is_active \in BOOLEAN :
        /\ pc = "api"
        /\ AddUser(username, role, is_active)

AccessCheck ==
    \E username \in Usernames, action \in ActionStrings :
        /\ pc = "api"
        /\ CheckAccess(username, action)

NextAccess == AccessAddUser \/ AccessCheck

SpecAccess == InitApi /\ [][NextAccess]_vars

-----------------------------------------------------------------------------
(* Spec: the script as shipped.  Every user it registers is an active      *)
(* Viewer (ScriptUsersAreViewers below), so the gate of line 187 never     *)
(* opens and the steps of lines 188-211 are not steps of this              *)
(* specification; SpecSession takes them.                                  *)

\* a username nobody registers
LoginNames == Usernames \cup {"mallory"}

TypedRoles ==
    { <<"v", "i", "e", "w", "e", "r">>,
      <<"m", "a", "n", "a", "g", "e", "r">>,
      <<"a", "d", "m", "i", "n">>,
      <<"M", "a", "n", "a", "g", "e", "r">>,
      <<"r", "o", "o", "t">> }

TypedStatuses ==
    { <<"a", "c", "t", "i", "v", "e">>,
      <<"i", "n", "a", "c", "t", "i", "v", "e">>,
      <<"u", "n", "d", "e", "r", " ", "m", "a", "i", "n", "t", "e", "n", "a", "n", "c", "e">>,
      <<"b", "r", "o", "k", "e", "n">> }

\* thermostat 1.0 is in the table, drone is not
ScriptDeviceTypes == {"thermostat", "drone"}

\* line 150: num_users = int(input(...))
Init ==
    /\ users = <<>>
    /\ devices = <<>>
    /\ recommendations = <<>>
    /\ todo \in 0..MaxUsers
    /\ pc = IF todo = 0 THEN "devices" ELSE "users"
    /\ user = None
    /\ out = NoOutput
    /\ text = <<>>
    /\ built = NoBuilt

ScriptAddUser ==
    \E username \in Usernames, typed_role \in TypedRoles :
        MainAddUser(username, typed_role)

ScriptAddDevice ==
    \E device_id \in DeviceIds, device_type \in ScriptDeviceTypes,
       firmware_version \in ReportFirmwareVersions, typed_status \in TypedStatuses,
       rand \in RandomInts :
        /\ Len(devices) < MaxDevices
        /\ MainAddDevice(device_id, device_type, firmware_version, typed_status,
                         0, 0, rand)

ScriptLogin == \E username \in LoginNames : Login(username)

Next ==
    \/ ScriptAddUser
    \/ ScriptAddDevice
    \/ MainDevicesDone
    \/ ScriptLogin
    \/ StatsYes
    \/ StatsNo

Spec == Init /\ [][Next]_vars

-----------------------------------------------------------------------------
(* SpecSession: lines 175-217 over a registry built with add_user *)

\* the numbers typed at line 206: below, in and above the list, and far above
IndexInputs == (-1..(MaxRecs + 1)) \cup {10}

InitSession ==
    /\ users = <<>>
    /\ devices = <<>>
    /\ recommendations = <<>>
    /\ todo = 0
    /\ pc = "login"
    /\ user = None
    /\ out = NoOutput
    /\ text = <<>>
    /\ built = NoBuilt

\* the registry is built before the first prompt of the session
SessionAddUser ==
    \E username \in Usernames, role \in Role, is_active \in BOOLEAN :
        /\ pc = "login"
        /\ AddUser(username, role, is_active)

SessionRecommendYes ==
    \E description \in Descriptions :
        /\ Len(recommendations) < MaxRecs
        /\ RecommendYes(description)

SessionApproveYes == \E number \in IndexInputs : ApproveYes(number)

NextSession ==
    \/ SessionAddUser
    \/ ScriptLogin
    \/ SessionRecommendYes
    \/ RecommendNo
    \/ SessionApproveYes
    \/ ApproveNo
    \/ StatsYes
    \/ StatsNo

SpecSession == InitSession /\ [][NextSession]_vars

-----------------------------------------------------------------------------
(* SpecRisk: devices are constructed, over the whole table and beside it *)

DeviceTypes == {"smart_light", "thermostat", "security_camera", "door_lock", "drone"}

FirmwareVersions == {"1.0", "1.1", "1.2", "2.0"}

RiskNewDevice ==
    \E device_id \in DeviceIds, device_type \in DeviceTypes,
       firmware_version \in FirmwareVersions, status \in DeviceStatus,
       t0 \in ClockReadings, e \in ElapsedHours, rand \in RandomInts :
        /\ pc = "api"
        /\ NewDevice(device_id, device_type, firmware_version, status, t0, t0 + e, rand)

NextRisk == RiskNewDevice

SpecRisk == InitApi /\ [][NextRisk]_vars

-----------------------------------------------------------------------------
(* SpecReport: a DeviceReport driven through its methods, in any order *)

ReportAddDevice ==
    \E device_id \in DeviceIds, device_type \in ReportDeviceTypes,
       firmware_version \in ReportFirmwareVersions, status \in DeviceStatus,
       rand \in RandomInts :
        /\ pc = "api"
        /\ Len(devices) < MaxDevices
        /\ AddDevice(device_id, device_type, firmware_version, status, 0, 0, rand)

ReportSetStatus ==
    \E i \in 1..MaxDevices, status \in DeviceStatus :
        /\ pc = "api"
        /\ SetStatus(i, status)

ReportAddRecommendation ==
    \E description \in Descriptions :
        /\ pc = "api"
        /\ Len(recommendations) < MaxRecs
        /\ AddRecommendation(description)

ReportApprove == \E i \in 1..MaxRecs : pc = "api" /\ Approve(i)

ReportReject == \E i \in 1..MaxRecs : pc = "api" /\ Reject(i)

ReportGenerateReport == pc = "api" /\ GenerateReport

ReportViewRecommendations == pc = "api" /\ ViewRecommendations

ReportGenerateStatistics == pc = "api" /\ GenerateStatistics

NextReport ==
    \/ ReportAddDevice
    \/ ReportSetStatus
    \/ ReportAddRecommendation
    \/ ReportApprove
    \/ ReportReject
    \/ ReportGenerateReport
    \/ ReportViewRecommendations
    \/ ReportGenerateStatistics

SpecReport == InitApi /\ [][NextReport]_vars

-----------------------------------------------------------------------------
(* Claims on the scorer, under SpecRisk *)

C4_BaseRisk(device_type, firmware_version) ==
    IF /\ device_type \in DOMAIN DEVICE_RISK_LEVELS
       /\ firmware_version \in DOMAIN DEVICE_RISK_LEVELS[device_type]
    THEN DEVICE_RISK_LEVELS[device_type][firmware_version]
    ELSE 0

\* the d with d days <= t1 - t0 < d + 1 days
C4_WholeDays(t0, t1) ==
    CHOOSE d \in -1..200 : d * 24 <= t1 - t0 /\ t1 - t0 < (d + 1) * 24

\* C4: the risk level a device is constructed with is the table's value for its
\* (type, version), 0 when the pair is absent, plus 2 when more than 180 whole
\* days lie between the creation timestamp and now, plus r in 0..2; unclamped.
C4_RiskAtConstruction ==
    built # NoBuilt =>
        /\ built.rand \in 0..2
        /\ built.device.risk_level =
               C4_BaseRisk(built.device.device_type, built.device.firmware_version)
               + (IF C4_WholeDays(built.device.last_updated, built.now) > 180
                  THEN 2 ELSE 0)
               + built.rand

\* a device of a type the table does not know, constructed 181 days after its
\* timestamp with r = 1: risk level 3
C4_Witness ==
    /\ built.device.device_type = "drone"
    /\ C4_WholeDays(built.device.last_updated, built.now) = 181
    /\ built.rand = 1
    /\ built.device.risk_level = 3

-----------------------------------------------------------------------------
(* Claims on DeviceReport, under SpecReport *)

C5_Count(P(_)) == Cardinality({i \in 1..Len(devices) : P(devices[i])})

C5_Expected ==
    << Len(devices),
       C5_Count(LAMBDA d : d.status = "ACTIVE"),
       C5_Count(LAMBDA d : d.status = "INACTIVE"),
       C5_Count(LAMBDA d : d.status = "UNDER_MAINTENANCE"),
       C5_Count(LAMBDA d : d.risk_level >= 5),
       C5_Count(LAMBDA d : d.risk_level < 5) >>

\* C5: whatever devices were added, generate_statistics reports the number of
\* devices, the number in each status (the three sum to the total), the number
\* at risk level >= 5 and the number below 5 (the two sum to the total).
C5_Statistics ==
    LET s == generate_statistics(devices)
    IN  /\ s = C5_Expected
        /\ s[2] + s[3] + s[4] = s[1]
        /\ s[5] + s[6] = s[1]
        /\ out.op = "generate_statistics" => text = C5_Expected

\* statistics just generated over an active device at risk 5 and an inactive
\* one at risk 4
C5_Witness ==
    /\ out.op = "generate_statistics"
    /\ Len(devices) = 2
    /\ devices[1].status = "ACTIVE" /\ devices[1].risk_level = 5
    /\ devices[2].status = "INACTIVE" /\ devices[2].risk_level = 4
    /\ text = <<2, 1, 1, 0, 1, 1>>

\* C7: a recommendation is created unapproved; approve makes it approved; and
\* an approved recommendation stays in its place, approved and otherwise
\* unchanged, through every step that is not a reject of that recommendation.
C7_ApprovalPersists ==
    [][/\ Len(recommendations') > Len(recommendations) =>
              ~recommendations'[Len(recommendations')].approved
       /\ \A i \in 1..Len(recommendations) :
              Approve(i) => recommendations'[i].approved
       /\ \A i \in 1..Len(recommendations) :
              (recommendations[i].approved /\ ~Reject(i)) =>
                  /\ i <= Len(recommendations')
                  /\ recommendations'[i] = recommendations[i]]_vars

\* the first of two recommendations is approved, the second pending, and the
\* text just rendered shows it so
C7_Witness ==
    /\ Len(recommendations) = 2
    /\ recommendations[1].approved
    /\ ~recommendations[2].approved
    /\ out.op = "view_recommendations"
    /\ text[1].state = "Approved"
    /\ text[2].state = "Pending"

\* C8: no step changes the risk level of a device held in the report, or
\* removes the device.
C8_RiskLevelFixed ==
    [][\A i \in 1..Len(devices) :
          /\ i <= Len(devices')
          /\ devices'[i].risk_level = devices[i].risk_level]_vars

\* a device constructed active at risk 6 is now under maintenance, still at
\* risk 6, beside a second device added after it
C8_Witness ==
    /\ Len(devices) = 2
    /\ devices[1].status = "UNDER_MAINTENANCE"
    /\ devices[1].risk_level = 6
    /\ out.op = "status"
    /\ built.device = devices[2]

-----------------------------------------------------------------------------
(* Claims on AccessControl, under SpecAccess *)

C1_Allowed(action) ==
    CASE action = "view_report" -> {"VIEWER", "MANAGER", "ADMIN"}
      [] action = "modify_report" -> {"MANAGER", "ADMIN"}
      [] action = "add_device" -> {"ADMIN"}
      [] action = "approve_recommendation" -> {"MANAGER"}
      [] OTHER -> {}

\* C1: for every registered user and every action string check_access returns
\* true exactly when the user is active and the role is in the action's allowed
\* set (and false otherwise), both for every query that could be made in the
\* state and for the query that was last made.
C1_CheckAccessTable ==
    /\ \A i \in 1..Len(users) : \A action \in ActionStrings :
          check_access(users[i], action) =
              IF users[i].is_active /\ users[i].role \in C1_Allowed(action)
              THEN "True" ELSE "False"
    /\ out.op \in ActionStrings =>
          out.ret = IF /\ DictGet(users, out.arg).is_active
                       /\ DictGet(users, out.arg).role \in C1_Allowed(out.op)
                    THEN "True" ELSE "False"

\* an active Admin has just been denied approve_recommendation
C1_Witness ==
    /\ out.op = "approve_recommendation"
    /\ out.ret = "False"
    /\ DictGet(users, out.arg).role = "ADMIN"
    /\ DictGet(users, out.arg).is_active

Keys(d) == {d[i].username : i \in 1..Len(d)}

\* C9: the registry holds one user per username added; add_user(u, r, a) leaves
\* u registered once, with role r and flag a, raises nothing, adds no other key
\* and leaves the entry of every other username as it was.
C9_AddUserOverwrites ==
    /\ [](\A i, j \in 1..Len(users) : users[i].username = users[j].username => i = j)
    /\ [][\A u \in Usernames, r \in Role, a \in BOOLEAN :
            AddUser(u, r, a) =>
                /\ Cardinality({i \in 1..Len(users') : users'[i].username = u}) = 1
                /\ DictGet(users', u) = User(u, r, a)
                /\ Keys(users') = Keys(users) \cup {u}
                /\ \A v \in Usernames \ {u} : DictGet(users', v) = DictGet(users, v)
                /\ out'.ret = "None"]_vars

\* the last add_user overwrote the first of two registered users
C9_Witness ==
    /\ Len(users) = 2
    /\ out.op = "add_user"
    /\ out.arg = users[1].username

-----------------------------------------------------------------------------
(* Claims on the script, under Spec *)

\* every user the script registers is an active Viewer, every device Active
ScriptUsersAreViewers ==
    /\ \A i \in 1..Len(users) : users[i].role = "VIEWER" /\ users[i].is_active
    /\ \A i \in 1..Len(devices) : devices[i].status = "ACTIVE"
    /\ pc \notin {"recommend", "approve"}

\* C2: a login under a username that is not registered is a denial:
\* check_access returns false, nothing is raised, and the session goes on to
\* the statistics prompt.
C2_UnknownUserIsDenied ==
    (out.op = "view_report" /\ KeyIndex(users, out.arg) = 0) =>
        (out.ret = "False" /\ pc = "stats")

C10_RoleOf(s) ==
    CASE s = <<"v", "i", "e", "w", "e", "r">> -> "VIEWER"
      [] s = <<"m", "a", "n", "a", "g", "e", "r">> -> "MANAGER"
      [] s = <<"a", "d", "m", "i", "n">> -> "ADMIN"
      [] OTHER -> "VIEWER"

C10_StatusOf(s) ==
    CASE s = <<"a", "c", "t", "i", "v", "e">> -> "ACTIVE"
      [] s = <<"i", "n", "a", "c", "t", "i", "v", "e">> -> "INACTIVE"
      [] s = <<"u", "n", "d", "e", "r", " ", "m", "a", "i", "n", "t", "e", "n", "a", "n", "c", "e">> -> "UNDER_MAINTENANCE"
      [] OTHER -> "ACTIVE"

\* C10: the role typed for a user (viewer, manager, admin) registers the user
\* with that Role, and the status typed for a device (active, inactive, under
\* maintenance) stores the device with that DeviceStatus; any other text
\* gives Viewer, and Active.
C10_TypedRoleAndStatusAreKept ==
    [][/\ \A username \in Usernames, typed_role \in TypedRoles :
              MainAddUser(username, typed_role) =>
                  DictGet(users', username).role = C10_RoleOf(lower(typed_role))
       /\ \A device_type \in ScriptDeviceTypes, typed_status \in TypedStatuses,
             rand \in RandomInts :
              MainAddDevice("d1", device_type, "1.0", typed_status, 0, 0, rand) =>
                  devices'[Len(devices')].status = C10_StatusOf(lower(typed_status))]_vars

-----------------------------------------------------------------------------
(* Claims on the session, under SpecSession *)

C6_InvalidIndexIsRejected ==
    [][\A number \in IndexInputs :
          (ApproveYes(number) /\ number \notin 1..Len(recommendations)) =>
              /\ recommendations' = recommendations
              /\ out'.ret = "Invalid recommendation index."
              /\ pc' = "approve"]_vars

\* number 10 was just refused on a list of two recommendations, both pending
C6_Witness ==
    /\ Len(recommendations) = 2
    /\ ~recommendations[1].approved /\ ~recommendations[2].approved
    /\ out.op = "approve" /\ out.arg = "10"
    /\ out.ret = "Invalid recommendation index."
    /\ pc = "approve"

====
